---- MODULE Spec2Model ----
(***************************************************************************)
(* The admission-control and accounting protocol of the Gemini toolbox     *)
(* proxy: src/server.js (one endpoint, 5 requests per minute) and          *)
(* src/unnamed/part_000 (two endpoints behind one limiter, 10 per minute). *)
(*                                                                         *)
(* A request runs synchronously from its arrival up to its first await     *)
(* (the limiter, the identity check, the quota check, the endpoint's own   *)
(* checks, the call of fetch), suspends at `await fetch(...)`, suspends    *)
(* again at `await apiResponse.json()`, and then runs synchronously to its *)
(* response.  Requests in flight interleave at the two awaits only.        *)
(***************************************************************************)
EXTENDS Integers, FiniteSets, TLC

\* ------------------------------------------------------------ constants

FREE_TRIAL_LIMIT == 20

windowMs == 60000

maxSingle == 5

maxDual == 10

\* ------------------------------------------------------------ bounds

\* Requests that may be in flight (or hold their last response) at once.
MaxInFlight == 2

\* Clock steps per rate window.
TicksPerWindow == 2

\* Requests a process receives in the runs of Spec.
MaxRequests == 2

\* Replies with status 2xx and a body that res.json cannot serialise which the
\* upstream sends to one user in the runs of SpecSteady.
MaxUnsent == 1

\* Characters "1" that successes may append to a usageTracker entry that holds a
\* string, before the environment stops sending requests with that userId.
MaxAppended == 2

\* ------------------------------------------------------------ values

ServerJs == "server.js"

Part000 == "part_000"

Servers == {ServerJs, Part000}

Gemini == "/api/gemini-proxy"

Search == "/api/search-proxy"

\* req.body.userId when the body carries none.
Undefined == "<undefined>"

\* Ordinary userIds: strings that name no property of Object.prototype.
Users == {"u1", "u2"}

\* Truthy userIds that name a property usageTracker ({}) inherits from
\* Object.prototype.
InheritedNames == {"constructor", "__proto__"}

\* The userId ["u1"]: an array, which a property access converts to "u1".
ArrayOfU1 == "['u1']"

\* The userId {"toString": 1}: an object that no property access can convert to
\* a key (TypeError: Cannot convert object to primitive value).
NoToString == "{toString:1}"

\* The values of req.body.userId; the limiter keys its store by them.
UserIds == Users \cup {Undefined, ""} \cup InheritedNames \cup {ArrayOfU1, NoToString}

\* The property keys under which usageTracker is read and written.
TrackerKeys == Users \cup InheritedNames

\* The values a read of usageTracker yields.  A number n is n.  The values that
\* are no numbers are coded below zero: -1 is the function Object
\* (Object.prototype.constructor), -2 the object Object.prototype, and v - 2 is
\* the string `${v}1`, so -3, -5, ... are the source text of Object followed by
\* one, two, ... characters "1", and -4 is "[object Object]1".
ObjectFunction == -1

ObjectPrototype == -2

IsNumber(v) == v >= 0

\* The characters "1" appended to a string value (0 for any other value).
Appended(v) == IF IsNumber(v) THEN 0 ELSE (0 - v - 1) \div 2

\* req.body.searchPayload: absent, without query, with an empty query, with a
\* query, with a query that holds a lone surrogate ("\\ud800").
NoPayload == "<undefined>"

NoQuery == "{}"

EmptyQuery == "{query:''}"

WithQuery == "{query:'cats'}"

BadQuery == "{query:'<lone surrogate>'}"

SearchPayloads == {NoPayload, NoQuery, EmptyQuery, WithQuery, BadQuery}

\* req.body.geminiPayload: arrays nested so deep that JSON.stringify throws
\* RangeError; NoPayload stands for every geminiPayload it can serialise.
DeepPayload == "<arrays nested 4186 deep>"

GeminiPayloads == {NoPayload, DeepPayload}

\* The payloads an endpoint's handler tells apart.
Payloads(endpoint) == IF endpoint = Search THEN SearchPayloads ELSE GeminiPayloads

\* What the upstream may reply: a status, and a body that parses as JSON or not.
UpstreamStatuses == {200, 201, 400, 429, 500}

UpstreamBodies == {"bodyA", "bodyB"}

\* A reply whose body apiResponse.json() parses and res.json() cannot
\* serialise again (arrays nested 6000 deep: JSON.stringify throws RangeError).
DeepBody == "<arrays nested 6000 deep>"

\* The bodies apiResponse.json() resolves with.
ParsedBodies == UpstreamBodies \cup {DeepBody}

\* A reply whose body apiResponse.json() cannot parse.
Unreadable == "<unreadable>"

RateLimitMessage == "Too many requests, please try again after a minute."

MissingUserMessage == "Missing user ID."

QuotaMessage == "Free trial limit reached. Please add your own API key in the settings to continue."

MissingQueryMessage == "Missing search query in request body"

ConfigMessage == "Server configuration error."

ProxyErrorMessage == "An error occurred on the proxy server."

\* The body Express's default error handler sends with status 500.
ExpressErrorPage == "<express error page>"

Slots == 1 .. MaxInFlight

TickMs == windowMs \div TicksPerWindow

VARIABLES
    server,        \* the source file that runs
    env,           \* process.env: which credentials are set
    usageTracker,  \* property key -> own value (0: no own property)
    store,         \* the limiter's entries: key -> [count, sinceStart]
    reqs,          \* slot -> the request it holds
    successes,     \* history: property key -> requests that ended in Relayed-Success
    dispatched,    \* history: key -> upstream calls issued in the key's open window
    exhausted,     \* history: property key -> usageTracker reached FREE_TRIAL_LIMIT once
    received,      \* history: requests received, counted up to MaxRequests
    alive          \* the Node process runs

vars == <<server, env, usageTracker, store, reqs, successes, dispatched, exhausted,
          received, alive>>

\* ------------------------------------------------------------ the limiter

\* Mutant of max: server.js is given the max of part_000.
maxOfPart000(srv) == maxDual

\* apiLimiter's max: 5 in server.js, 10 in part_000.
max(srv) == IF srv = ServerJs THEN maxSingle ELSE maxDual

\* keyGenerator: (req, res) => req.body.userId
keyGenerator(userId) == userId

\* The limiter that rateLimit({...}) returns is express-rate-limit's, whose code
\* is no part of the source files.  Its counting is the fixed-window counter of
\* the design document (4.1 RateWindow), with the windowMs, max and
\* keyGenerator that the source files configure.  An entry holds the requests
\* counted in its window (count) and the time since the window's start
\* (sinceStart = now - windowStart).

\* The entry of a key that has none: a look-up treats an absent entry and one
\* whose window is over alike.
RateWindowAbsent == [count |-> 0, sinceStart |-> windowMs]

\* now - entry.windowStart >= windowDuration
RateWindowOver(entry) == entry.sinceStart >= windowMs

\* "If absent or now - entry.windowStart >= windowDuration, create/reset entry
\* with windowStart = now, count = 0."
RateWindowLookup(entry) ==
    IF RateWindowOver(entry) THEN [count |-> 0, sinceStart |-> 0] ELSE entry

\* "If entry.count >= maxPerWindow, return not-allowed."
RateWindowNotAllowed(srv, entry) == RateWindowLookup(entry).count >= max(srv)

\* "Otherwise increment count and return allowed."
RateWindowCheck(srv, entry) ==
    IF RateWindowNotAllowed(srv, entry)
    THEN RateWindowLookup(entry)
    ELSE [RateWindowLookup(entry) EXCEPT !.count = @ + 1]

\* The entry `ms` milliseconds later; an entry whose window is over by then is
\* held as an absent one.
Elapse(entry, ms) ==
    IF entry.sinceStart + ms >= windowMs
    THEN RateWindowAbsent
    ELSE [entry EXCEPT !.sinceStart = @ + ms]

\* ------------------------------------------------------------ the checks

\* JavaScript truthiness of req.body.userId: undefined and "" are falsy.
Truthy(userId) == userId \notin {Undefined, ""}

\* Whether userId converts to a property key; the access throws when not.
HasPropertyKey(userId) == userId # NoToString

\* The property key usageTracker[userId] uses: an array converts to its
\* elements joined, a string is its own key.
PropertyKey(userId) == IF userId = ArrayOfU1 THEN "u1" ELSE userId

\* What a read of `key` finds on Object.prototype when usageTracker has no own
\* property `key`; undefined || 0 is 0.
Inherited(key) ==
    IF key = "constructor" THEN ObjectFunction
    ELSE IF key = "__proto__" THEN ObjectPrototype
    ELSE 0

\* usageTracker[userId] || 0
ReadUsage(tracker, userId) ==
    LET key == PropertyKey(userId)
    IN  IF tracker[key] # 0 THEN tracker[key] ELSE Inherited(key)

\* userUsage >= FREE_TRIAL_LIMIT
QuotaReached(userUsage) == userUsage >= FREE_TRIAL_LIMIT

\* Mutant of MissingQuery: the query is compared with undefined only, so an
\* empty query passes.
MissingQueryUndefinedOnly(payload) == payload \in {NoPayload, NoQuery}

\* !searchPayload || !searchPayload.query
MissingQuery(payload) == payload \in {NoPayload, NoQuery, EmptyQuery}

\* !SEARCH_API_KEY || !CX_ID
MissingSearchConfig(e) == ~e.SEARCH_API_KEY \/ ~e.CX_ID

\* apiResponse.ok: the status is in 200..299.
ApiOk(status) == status >= 200 /\ status <= 299

\* userUsage + 1: a number is incremented, any other value is converted to a
\* string to which "1" is appended.
UsageWrite(userUsage) == IF IsNumber(userUsage) THEN userUsage + 1 ELSE userUsage - 2

\* usageTracker[userId] = value: the assignment to "__proto__" of a value that
\* is no object creates no property.
WriteUsage(tracker, userId, value) ==
    LET key == PropertyKey(userId)
    IN  IF key = "__proto__" THEN tracker ELSE [tracker EXCEPT ![key] = value]

\* encodeURIComponent(query) throws URIError.
MalformedQuery(payload) == payload = BadQuery

\* JSON.stringify(req.body.geminiPayload) returns.
Stringifiable(payload) == payload # DeepPayload

\* res.json(data) returns: it serialises data with JSON.stringify.
Serialisable(data) == data # DeepBody

\* ------------------------------------------------------------ requests

\* A slot's request: where it stands (pc), its body's userId and searchPayload,
\* its endpoint, the handler's local userUsage, what the upstream replied and
\* what the client was sent.  History: admitted (the limiter, the identity check
\* and the quota check let it pass), called (fetch was called), lateAdmit (it
\* was admitted after its user's usageTracker had reached FREE_TRIAL_LIMIT),
\* sent (the responses sent on res), calls (the calls of fetch).
Idle ==
    [pc |-> "idle", userId |-> Undefined, endpoint |-> Gemini, payload |-> NoPayload,
     userUsage |-> 0, upStatus |-> 0, upBody |-> "", status |-> 0, body |-> "",
     admitted |-> FALSE, called |-> FALSE, lateAdmit |-> FALSE, sent |-> 0, calls |-> 0]

\* The request as it arrives, with the payload its endpoint reads: the search
\* handler reads searchPayload only, the generative handler geminiPayload only.
Arriving(userId, endpoint, payload) ==
    [Idle EXCEPT !.userId = userId, !.endpoint = endpoint,
                 !.payload = IF endpoint = Search
                             THEN (IF payload \in SearchPayloads THEN payload ELSE NoPayload)
                             ELSE (IF payload \in GeminiPayloads THEN payload ELSE NoPayload)]

\* res.status(status).json({ error: body }) before any upstream call.
Rejected(req, status, body) ==
    [req EXCEPT !.pc = "done", !.status = status, !.body = body, !.sent = @ + 1]

\* A request suspended at `await fetch(...)`.
Fetching(req, userUsage) ==
    [req EXCEPT !.pc = "fetch", !.userUsage = userUsage, !.called = TRUE,
                !.calls = @ + 1]

\* A request whose handler or middleware threw outside any try block.
Threw(req) == [req EXCEPT !.pc = "threw", !.userUsage = 0]

\* A request that nothing answers: its async handler threw and its rejected
\* promise was ignored, or the process exited while it was in flight.
Unanswered(req) == [req EXCEPT !.pc = "unanswered", !.userUsage = 0]

\* A request whose async handler threw and whose unhandled rejection ends the
\* process.
Exiting(req) == [req EXCEPT !.pc = "exit"]

\* What becomes of a request that threw.  Express answers an error thrown by
\* a synchronous middleware (usageAndAuthMiddleware of part_000) with its
\* default error handler, status 500.  An async handler that throws returns a
\* rejected promise: Express 5 passes it to the same error handler; Express 4
\* ignores it, and the unhandled rejection ends the process (Node's default
\* since version 15) or, with --unhandled-rejections=warn or an older Node,
\* leaves the request unanswered.
Settled(srv, req) ==
    IF req.pc # "threw" THEN {req}
    ELSE IF srv = Part000 /\ ~req.admitted
    THEN {Rejected(req, 500, ExpressErrorPage)}
    ELSE {Exiting(req), Unanswered(req), Rejected(req, 500, ExpressErrorPage)}

\* Mutant of CatchResponse: the error's own message is sent.
CatchResponseLeaky == [status |-> 500, body |-> "fetch failed"]

\* The catch block: res.status(500).json({ error: "An error occurred ..." })
CatchResponse == [status |-> 500, body |-> ProxyErrorMessage]

\* res.json(data): the status is Express's default, 200.
SuccessResponse(upStatus, data) == [status |-> 200, body |-> data]

\* res.status(apiResponse.status).json(data)
ErrorResponse(upStatus, data) == [status |-> upStatus, body |-> data]

\* A request that sent its response: the handler's locals are gone.
Responded(req, response, upBody) ==
    [req EXCEPT !.pc = "done", !.userUsage = 0, !.upBody = upBody,
                !.status = response.status, !.body = response.body, !.sent = @ + 1]

\* Slot s holds no request.
Free(s) == reqs[s].pc = "idle"

\* A new request takes the first slot that holds none.
FirstFree(s) == Free(s) /\ \A t \in Slots : t < s => ~Free(t)

\* The endpoints a server registers.
Endpoints(srv) == IF srv = ServerJs THEN {Gemini} ELSE {Gemini, Search}

\* usageAndAuthMiddleware (part_000), or the same checks inlined at the head of
\* the handler (server.js): the identity check, then the read of usageTracker,
\* which throws for a userId that converts to no property key, then the quota
\* check.
usageAndAuthMiddleware(req) ==
    IF ~Truthy(req.userId)
    THEN Rejected(req, 400, MissingUserMessage)
    ELSE IF ~HasPropertyKey(req.userId)
    THEN Threw(req)
    ELSE IF QuotaReached(ReadUsage(usageTracker, req.userId))
    THEN Rejected(req, 429, QuotaMessage)
    ELSE [req EXCEPT !.admitted = TRUE,
                     !.userUsage = ReadUsage(usageTracker, req.userId),
                     !.lateAdmit = exhausted[PropertyKey(req.userId)]]

\* The handler of an admitted request up to its first await: the search
\* endpoint checks the query and its credentials and builds the URL, which
\* throws, before the try block opens, for a query that encodeURIComponent
\* rejects; the generative endpoint serialises geminiPayload inside the try
\* block, whose catch answers 500 when that throws; then fetch is called.
Handler(req) ==
    IF req.endpoint = Search /\ MissingQuery(req.payload)
    THEN Rejected([req EXCEPT !.userUsage = 0], 400, MissingQueryMessage)
    ELSE IF req.endpoint = Search /\ MissingSearchConfig(env)
    THEN Rejected([req EXCEPT !.userUsage = 0], 500, ConfigMessage)
    ELSE IF req.endpoint = Search /\ MalformedQuery(req.payload)
    THEN Threw(req)
    ELSE IF req.endpoint = Gemini /\ ~Stringifiable(req.payload)
    THEN Rejected([req EXCEPT !.userUsage = 0], CatchResponse.status, CatchResponse.body)
    ELSE Fetching(req, req.userUsage)

\* The route's chain after the limiter let the request pass.
Handle(req) ==
    LET checked == usageAndAuthMiddleware(req)
    IN  IF checked.pc \in {"done", "threw"} THEN checked ELSE Handler(checked)

\* ------------------------------------------------------------ state machine

\* process.env as a server reads it: server.js reads GEMINI_API_KEY only.
Environments(srv) ==
    {e \in [{"GEMINI_API_KEY", "SEARCH_API_KEY", "CX_ID"} -> BOOLEAN] :
        srv = ServerJs => ~e.SEARCH_API_KEY /\ ~e.CX_ID}

\* A fresh process: nothing counted, no window open, no request.
Fresh ==
    /\ usageTracker = [k \in TrackerKeys |-> 0]
    /\ store = [k \in UserIds |-> RateWindowAbsent]
    /\ reqs = [s \in Slots |-> Idle]
    /\ successes = [k \in TrackerKeys |-> 0]
    /\ dispatched = [k \in UserIds |-> 0]
    /\ exhausted = [k \in TrackerKeys |-> FALSE]
    /\ received = 0
    /\ alive = TRUE

Init ==
    /\ server \in Servers
    /\ env \in Environments(server)
    /\ Fresh

\* A fresh process with every credential its server reads set.
InitConfigured ==
    /\ server \in Servers
    /\ env \in {e \in Environments(server) :
                  e.GEMINI_API_KEY /\ (server = Part000 => e.SEARCH_API_KEY /\ e.CX_ID)}
    /\ Fresh

\* The requests after the process exited while `req` arrived in slot s: req
\* and every request in flight are dropped, never to be answered.
Dropped(s, req) ==
    [t \in Slots |->
        IF t = s THEN Unanswered(req)
        ELSE IF reqs[t].pc \in {"fetch", "json"} THEN Unanswered(reqs[t])
        ELSE reqs[t]]

\* A request arrives: apiLimiter, then the handler up to its first await or to
\* the response or the exception that ends it before.  When the exception ends
\* the process, its memory (usageTracker, the limiter's entries) is lost with
\* it and no request is received any more.
Receive(s, userId, endpoint, payload) ==
    LET key == keyGenerator(userId)
        entry == RateWindowCheck(server, store[key])
        fresh == RateWindowOver(store[key])
        arriving == Arriving(userId, endpoint, payload)
        handled == IF RateWindowNotAllowed(server, store[key])
                   THEN Rejected(arriving, 429, RateLimitMessage)
                   ELSE Handle(arriving)
    IN  /\ alive
        /\ FirstFree(s)
        /\ endpoint \in Endpoints(server)
        /\ HasPropertyKey(userId) /\ Truthy(userId)
              => Appended(ReadUsage(usageTracker, userId)) < MaxAppended
        /\ \E req \in Settled(server, handled) :
              IF req.pc = "exit"
              THEN /\ alive' = FALSE
                   /\ reqs' = Dropped(s, req)
                   /\ usageTracker' = [k \in TrackerKeys |-> 0]
                   /\ store' = [k \in UserIds |-> RateWindowAbsent]
                   /\ dispatched' = [k \in UserIds |-> 0]
              ELSE /\ alive' = alive
                   /\ reqs' = [reqs EXCEPT ![s] = req]
                   /\ usageTracker' = usageTracker
                   /\ store' = [store EXCEPT ![key] = entry]
                   /\ dispatched' = [dispatched EXCEPT ![key] =
                                       (IF fresh THEN 0 ELSE @) + (IF req.called THEN 1 ELSE 0)]
        /\ received' = IF received < MaxRequests THEN received + 1 ELSE received
        /\ UNCHANGED <<server, env, successes, exhausted>>

\* `await fetch(...)` resolves with the upstream's status.
FetchResolves(s, status) ==
    /\ reqs[s].pc = "fetch"
    /\ reqs' = [reqs EXCEPT ![s].pc = "json", ![s].upStatus = status]
    /\ UNCHANGED <<server, env, alive, usageTracker, store, successes, dispatched, exhausted,
                   received>>

\* `await fetch(...)` rejects (network failure): the catch block answers 500.
FetchRejects(s) ==
    /\ reqs[s].pc = "fetch"
    /\ reqs' = [reqs EXCEPT ![s] = Responded(@, CatchResponse, "")]
    /\ UNCHANGED <<server, env, alive, usageTracker, store, successes, dispatched, exhausted,
                   received>>

\* `await apiResponse.json()` rejects (a body that is no JSON): the catch block
\* answers 500.
JsonRejects(s) ==
    /\ reqs[s].pc = "json"
    /\ reqs' = [reqs EXCEPT ![s] = Responded(@, CatchResponse, Unreadable)]
    /\ UNCHANGED <<server, env, alive, usageTracker, store, successes, dispatched, exhausted,
                   received>>

\* Mutant of RelaySuccess: the search handler does not write usageTracker.
RelaySuccessSearchUncounted(s, data) ==
    LET r == reqs[s]
        written == UsageWrite(r.userUsage)
        response == IF Serialisable(data) THEN SuccessResponse(r.upStatus, data)
                    ELSE CatchResponse
    IN  /\ r.pc = "json"
        /\ ApiOk(r.upStatus)
        /\ usageTracker' = IF r.endpoint = Search THEN usageTracker
                           ELSE WriteUsage(usageTracker, r.userId, written)
        /\ reqs' = [reqs EXCEPT ![s] = Responded(@, response, data)]
        /\ successes' = [successes EXCEPT ![PropertyKey(r.userId)] =
                            IF @ > FREE_TRIAL_LIMIT \/ ~Serialisable(data) THEN @ ELSE @ + 1]
        /\ exhausted' = [exhausted EXCEPT ![PropertyKey(r.userId)] =
                            @ \/ QuotaReached(written)]
        /\ UNCHANGED <<server, env, alive, store, dispatched, received>>

\* `await apiResponse.json()` resolves with `data`, the upstream replied 2xx:
\* the usage read before the awaits, plus one, is written, and data is sent
\* with res.json (status 200); when res.json throws on data, the write stays
\* and the catch block answers 500.
RelaySuccess(s, data) ==
    LET r == reqs[s]
        written == UsageWrite(r.userUsage)
        response == IF Serialisable(data) THEN SuccessResponse(r.upStatus, data)
                    ELSE CatchResponse
    IN  /\ r.pc = "json"
        /\ ApiOk(r.upStatus)
        /\ usageTracker' = WriteUsage(usageTracker, r.userId, written)
        /\ reqs' = [reqs EXCEPT ![s] = Responded(@, response, data)]
        /\ successes' = [successes EXCEPT ![PropertyKey(r.userId)] =
                            IF @ > FREE_TRIAL_LIMIT \/ ~Serialisable(data) THEN @ ELSE @ + 1]
        /\ exhausted' = [exhausted EXCEPT ![PropertyKey(r.userId)] =
                            @ \/ QuotaReached(written)]
        /\ UNCHANGED <<server, env, alive, store, dispatched, received>>

\* Mutant of RelayUpstreamError: the call is tried again on a non-2xx reply.
RetryUpstreamError(s, data) ==
    LET r == reqs[s]
    IN  /\ r.pc = "json"
        /\ ~ApiOk(r.upStatus)
        /\ r.calls < 2
        /\ reqs' = [reqs EXCEPT ![s] = Fetching([r EXCEPT !.upStatus = 0], r.userUsage)]
        /\ UNCHANGED <<server, env, alive, usageTracker, store, successes, dispatched, exhausted,
                   received>>

\* `await apiResponse.json()` resolves with `data`, the upstream replied
\* non-2xx: its status and data are relayed; when res.json throws on data, the
\* catch block answers 500.
RelayUpstreamError(s, data) ==
    LET r == reqs[s]
        response == IF Serialisable(data) THEN ErrorResponse(r.upStatus, data)
                    ELSE CatchResponse
    IN  /\ r.pc = "json"
        /\ ~ApiOk(r.upStatus)
        /\ reqs' = [reqs EXCEPT ![s] = Responded(@, response, data)]
        /\ UNCHANGED <<server, env, alive, usageTracker, store, successes, dispatched,
                       exhausted, received>>

\* The exchange in slot s is over (its response was sent, or its client gave
\* up waiting for one): the slot holds no request any more.
Release(s) ==
    /\ reqs[s].pc \in {"done", "unanswered"}
    /\ reqs' = [reqs EXCEPT ![s] = Idle]
    /\ UNCHANGED <<server, env, alive, usageTracker, store, successes, dispatched, exhausted,
                   received>>

\* TickMs milliseconds pass: the window of every entry grows older.
Tick ==
    /\ alive
    /\ store' = [k \in UserIds |-> Elapse(store[k], TickMs)]
    /\ dispatched' = [k \in UserIds |->
                        IF RateWindowOver(Elapse(store[k], TickMs)) THEN 0 ELSE dispatched[k]]
    /\ store' # store
    /\ UNCHANGED <<server, env, alive, usageTracker, reqs, successes, exhausted, received>>

\* No slot holds a request: every exchange is over.
Quiet == \A s \in Slots : Free(s)

\* The writes of usageTracker[key] whose request did not end in Relayed-Success,
\* when the requests of the key come one after the other.
Unsent(key) == usageTracker[key] - successes[key]

\* Clients with any userId send up to MaxRequests requests to either endpoint,
\* with any payload, up to MaxInFlight of them in flight at once; the upstream
\* answers anything or fails.
Next ==
    \/ \E s \in Slots, userId \in UserIds, endpoint \in {Gemini, Search} :
          \E payload \in Payloads(endpoint) :
             received < MaxRequests /\ Receive(s, userId, endpoint, payload)
    \/ \E s \in Slots, status \in UpstreamStatuses : FetchResolves(s, status)
    \/ \E s \in Slots : FetchRejects(s)
    \/ \E s \in Slots : JsonRejects(s)
    \/ \E s \in Slots, data \in ParsedBodies : RelaySuccess(s, data)
    \/ \E s \in Slots, data \in ParsedBodies : RelayUpstreamError(s, data)
    \/ \E s \in Slots : Release(s)
    \/ Tick

Spec == Init /\ [][Next]_vars

\* One client that sends any number of requests, one after the other, to either
\* endpoint and with any payload; the upstream answers anything or fails, and
\* up to MaxUnsent of its 2xx replies are bodies that res.json cannot serialise.
NextSteady ==
    \/ \E s \in Slots, endpoint \in {Gemini, Search} :
          \E payload \in Payloads(endpoint) : Quiet /\ Receive(s, "u1", endpoint, payload)
    \/ \E s \in Slots, status \in UpstreamStatuses : FetchResolves(s, status)
    \/ \E s \in Slots : FetchRejects(s)
    \/ \E s \in Slots : JsonRejects(s)
    \/ \E s \in Slots, data \in ParsedBodies :
          /\ Serialisable(data) \/ Unsent("u1") < MaxUnsent
          /\ RelaySuccess(s, data)
    \/ \E s \in Slots, data \in ParsedBodies : RelayUpstreamError(s, data)
    \/ \E s \in Slots : Release(s)
    \/ Tick

SpecSteady == Init /\ [][NextSteady]_vars

\* One client with up to MaxInFlight generative requests in flight at once, and
\* an upstream that answers every call 2xx, with a body that parses and that
\* res.json may be unable to serialise, as long as usageTracker is less than
\* MaxUnsent ahead of the number of 200 responses.
NextBusy ==
    \/ \E s \in Slots : Receive(s, "u1", Gemini, NoPayload)
    \/ \E s \in Slots, status \in {u \in UpstreamStatuses : ApiOk(u)} :
          FetchResolves(s, status)
    \/ \E s \in Slots, data \in ParsedBodies :
          /\ Serialisable(data) \/ Unsent("u1") < MaxUnsent
          /\ RelaySuccess(s, data)
    \/ \E s \in Slots : Release(s)
    \/ Tick

\* server.js with its credential set.
InitBusy == InitConfigured /\ server = ServerJs

SpecBusy == InitBusy /\ [][NextBusy]_vars

\* Clients that send no userId, or an empty one.
NextAnonymous ==
    \/ \E s \in Slots, userId \in {Undefined, ""}, endpoint \in {Gemini, Search},
          payload \in SearchPayloads : Receive(s, userId, endpoint, payload)
    \/ \E s \in Slots : Release(s)
    \/ Tick

SpecAnonymous == Init /\ [][NextAnonymous]_vars

\* Scenario A: one client, whose userId is "u1" or "constructor", sends
\* generative requests one after the other, each in a rate window of its own,
\* and the upstream answers every call 2xx with a body that parses.
NextScenarioA ==
    \/ \E s \in Slots, userId \in {"u1", "constructor"} :
          /\ Quiet
          /\ RateWindowOver(store[userId])
          /\ \A k \in TrackerKeys \ {userId} : successes[k] = 0
          /\ Receive(s, userId, Gemini, NoPayload)
    \/ \E s \in Slots, status \in {u \in UpstreamStatuses : ApiOk(u)} :
          FetchResolves(s, status)
    \/ \E s \in Slots, data \in ParsedBodies : RelaySuccess(s, data)
    \/ \E s \in Slots : Release(s)
    \/ Tick

SpecScenarioA == InitConfigured /\ [][NextScenarioA]_vars

\* part_000 with its credentials set.
InitDual == InitConfigured /\ server = Part000

\* One client that sends generative requests one after the other to part_000;
\* the upstream answers anything, fails, or stays silent.
NextSilent ==
    \/ \E s \in Slots : Quiet /\ Receive(s, "u1", Gemini, NoPayload)
    \/ \E s \in Slots, status \in UpstreamStatuses : FetchResolves(s, status)
    \/ \E s \in Slots : FetchRejects(s)
    \/ \E s \in Slots : JsonRejects(s)
    \/ \E s \in Slots, data \in ParsedBodies : RelaySuccess(s, data)
    \/ \E s \in Slots, data \in ParsedBodies : RelayUpstreamError(s, data)
    \/ \E s \in Slots : Release(s)
    \/ Tick

\* Time passes whatever happens; nothing makes the upstream answer.  The
\* handler's continuations are steps of the upstream's reply, so they get no
\* fairness of their own.
SpecSilent == InitDual /\ [][NextSilent]_vars /\ WF_vars(Tick)

\* Clients whose userIds are a string, an array, names of inherited
\* properties and an object without a usable toString send a few generative
\* requests each, one request at a time and all within one rate window; the
\* upstream answers 200 or 500, with a body that parses and that res.json may
\* be unable to serialise.
NextCoerced ==
    \/ \E s \in Slots, userId \in {"u1", ArrayOfU1, NoToString} \cup InheritedNames :
          /\ Quiet
          /\ store[keyGenerator(userId)].count <= MaxAppended
          /\ Receive(s, userId, Gemini, NoPayload)
    \/ \E s \in Slots, status \in {200, 500} : FetchResolves(s, status)
    \/ \E s \in Slots, data \in {"bodyA", DeepBody} : RelaySuccess(s, data)
    \/ \E s \in Slots, data \in {"bodyA", DeepBody} : RelayUpstreamError(s, data)
    \/ \E s \in Slots : Release(s)

SpecCoerced == InitConfigured /\ [][NextCoerced]_vars

\* ------------------------------------------------------------ steps

\* Slot s holds a request in flight in this state.
InFlight(s) == reqs[s].pc \in {"fetch", "json"}

\* This step is the arrival of a request, which slot s receives.
Arrives(s) == reqs[s].pc = "idle" /\ reqs'[s].pc # "idle"

\* This step sends the response of the request in flight in slot s.
Responds(s) == InFlight(s) /\ reqs'[s].pc = "done"

\* ------------------------------------------------------------ claims

\* C1: usageTracker[k] equals exactly the number of requests of user k that
\* ended in Relayed-Success, also when requests of k interleave at the awaited
\* upstream call.
C1_ExactAccounting == \A u \in Users : usageTracker[u] = successes[u]

\* C2: once usageTracker[k] >= FREE_TRIAL_LIMIT held, no later request of k
\* passes the quota check: none is admitted and dispatched upstream.
C2_ExhaustionPermanent == \A s \in Slots : ~reqs[s].lateAdmit

\* C3: the number of requests of a user that end in Relayed-Success never
\* exceeds FREE_TRIAL_LIMIT.
C3_SuccessCap == \A u \in Users : successes[u] <= FREE_TRIAL_LIMIT

\* C4: a request whose userId is missing or empty is always answered 400
\* "Missing user ID.", never 429, however many of them arrived in the window.
C4_MissingIdAlways400 ==
    \A s \in Slots :
        reqs[s].pc = "done" /\ reqs[s].userId \in {Undefined, ""}
            => reqs[s].status = 400 /\ reqs[s].body = MissingUserMessage

\* C5: in one window of a user at most max requests (5 in server.js, 10 in
\* part_000) are dispatched upstream, whatever became of them, and a request
\* that arrives while the window is open and max requests were counted in it is
\* answered 429 with the rate-limit message without an upstream call.
C5_RateCap ==
    /\ [](\A k \in UserIds : dispatched[k] <= (IF server = ServerJs THEN 5 ELSE 10))
    /\ [][\A s \in Slots :
            /\ Arrives(s)
            /\ store[reqs'[s].userId].sinceStart < 60000
            /\ store[reqs'[s].userId].count >= (IF server = ServerJs THEN 5 ELSE 10)
            => /\ reqs'[s].pc = "done"
               /\ reqs'[s].status = 429
               /\ reqs'[s].body = RateLimitMessage
               /\ ~reqs'[s].called]_vars

\* A user's window holds max dispatched requests, and one more request of the
\* user was answered 429 with the rate-limit message.
C5_Witness ==
    \E s \in Slots :
        /\ Truthy(reqs[s].userId)
        /\ dispatched[reqs[s].userId] = (IF server = ServerJs THEN 5 ELSE 10)
        /\ store[reqs[s].userId].sinceStart < 60000
        /\ reqs[s].pc = "done" /\ reqs[s].status = 429
        /\ reqs[s].body = RateLimitMessage /\ ~reqs[s].called

\* C6: in scenario A, for the user who sends the requests: the requests
\* answered so far were all answered 200 and each left usageTracker at its
\* ordinal (1..20); the request after the 20th success is answered 429 with the
\* quota message without an upstream call.
C6_ScenarioA ==
    \A k \in TrackerKeys :
        /\ usageTracker[k] = successes[k]
        /\ successes[k] <= 20
        /\ \A s \in Slots :
              reqs[s].userId = k =>
                 /\ InFlight(s) => successes[k] < 20 /\ reqs[s].userUsage = successes[k]
                 /\ reqs[s].pc = "done" =>
                       \/ /\ reqs[s].status = 200 /\ reqs[s].body \in UpstreamBodies
                          /\ successes[k] \in 1 .. 20
                       \/ /\ reqs[s].status = 429 /\ reqs[s].body = QuotaMessage
                          /\ ~reqs[s].called /\ successes[k] = 20

\* C7: when the upstream replied non-2xx with a body that parses, the response
\* carries the upstream's status and body, and the step that sends it leaves
\* usageTracker unchanged for every user.
C7_UpstreamErrorPassthrough ==
    [][\A s \in Slots :
          /\ Responds(s)
          /\ reqs[s].pc = "json"
          /\ reqs[s].upStatus \notin 200 .. 299
          /\ reqs'[s].upBody # Unreadable
          => /\ reqs'[s].status = reqs[s].upStatus
             /\ reqs'[s].body = reqs'[s].upBody
             /\ reqs'[s].body \in UpstreamBodies
             /\ usageTracker' = usageTracker]_vars

\* C8: when the upstream call fails (fetch rejects, or the reply cannot be
\* read), the response is 500 with the fixed message, and the step that sends
\* it changes neither usageTracker nor any entry of the limiter, so the request
\* stays counted in its user's window.
C8_TransportFailure ==
    [][\A s \in Slots :
          /\ Responds(s)
          /\ reqs[s].pc = "fetch" \/ reqs'[s].upBody = Unreadable
          => /\ reqs'[s].status = 500
             /\ reqs'[s].body = ProxyErrorMessage
             /\ usageTracker' = usageTracker
             /\ store' = store]_vars

\* A request whose upstream call failed was answered 500 with the fixed
\* message while it is still counted in its user's open window.
C8_Witness ==
    \E s \in Slots :
        /\ reqs[s].pc = "done" /\ reqs[s].called /\ reqs[s].upStatus = 0
        /\ reqs[s].status = 500 /\ reqs[s].body = ProxyErrorMessage
        /\ reqs[s].userId \in Users
        /\ store[reqs[s].userId].count >= 1
        /\ store[reqs[s].userId].sinceStart < 60000
        /\ usageTracker[reqs[s].userId] = 0

\* C9: a search request that passed admission with searchPayload or its query
\* missing or empty is answered 400 at once, without an upstream call, and its
\* arrival leaves usageTracker unchanged.
C9_MissingQuery ==
    [][\A s \in Slots :
          /\ Arrives(s)
          /\ reqs'[s].admitted
          /\ reqs'[s].endpoint = Search
          /\ reqs'[s].payload \in {NoPayload, NoQuery, EmptyQuery}
          => /\ reqs'[s].pc = "done"
             /\ reqs'[s].status = 400
             /\ reqs'[s].body = MissingQueryMessage
             /\ ~reqs'[s].called
             /\ usageTracker' = usageTracker]_vars

\* An admitted search request with an empty query was answered 400.
C9_Witness ==
    \E s \in Slots :
        /\ reqs[s].pc = "done" /\ reqs[s].admitted /\ reqs[s].endpoint = Search
        /\ reqs[s].payload = EmptyQuery
        /\ reqs[s].status = 400 /\ reqs[s].body = MissingQueryMessage
        /\ ~reqs[s].called

\* C10: an admitted request (a search request with its query present) whose
\* endpoint lacks a credential is answered with the 500 configuration error
\* and makes no upstream call.
C10_ConfigBeforeDispatch ==
    \A s \in Slots :
        /\ reqs[s].admitted
        /\ \/ reqs[s].endpoint = Gemini /\ ~env.GEMINI_API_KEY
           \/ /\ reqs[s].endpoint = Search /\ reqs[s].payload = WithQuery
              /\ ~env.SEARCH_API_KEY \/ ~env.CX_ID
        => /\ reqs[s].pc = "done"
           /\ reqs[s].status = 500
           /\ reqs[s].body = ConfigMessage
           /\ ~reqs[s].called

\* The terminal outcomes the response of the request in slot s fits.
OutcomesOf(s) ==
    LET r == reqs[s]
    IN  {o \in {"MissingIdentity", "RateLimited", "QuotaExhausted", "MissingRequestField",
                "ServerConfigurationError", "RelayedSuccess", "RelayedUpstreamError",
                "RelayedTransportError"} :
          \/ o = "MissingIdentity" /\ r.status = 400 /\ r.body = MissingUserMessage
          \/ o = "RateLimited" /\ r.status = 429 /\ r.body = RateLimitMessage
          \/ o = "QuotaExhausted" /\ r.status = 429 /\ r.body = QuotaMessage
          \/ o = "MissingRequestField" /\ r.status = 400 /\ r.body = MissingQueryMessage
          \/ o = "ServerConfigurationError" /\ r.status = 500 /\ r.body = ConfigMessage
          \/ o = "RelayedSuccess" /\ r.status = 200 /\ r.body \in UpstreamBodies
          \/ o = "RelayedUpstreamError" /\ r.status \notin 200 .. 299
                /\ r.body \in UpstreamBodies
          \/ o = "RelayedTransportError" /\ r.status = 500 /\ r.body = ProxyErrorMessage}

\* C11: a request that is still in flight has sent no response; a request
\* whose handler has ended has sent exactly one, and that response fits exactly
\* one terminal outcome.
C11_ExactlyOneResponse ==
    \A s \in Slots :
        /\ reqs[s].pc \in {"idle", "fetch", "json"} => reqs[s].sent = 0
        /\ reqs[s].pc \in {"done", "unanswered"} =>
              reqs[s].sent = 1 /\ Cardinality(OutcomesOf(s)) = 1

\* C12: no step sets usageTracker[k] to a value lower than the value it held
\* just before the step.
C12_UsageMonotonic ==
    [][\A u \in Users : usageTracker'[u] >= usageTracker[u]]_vars

\* C13: every request in flight eventually gets its response, whether or not
\* the upstream replies.
C13_BoundedResponse ==
    \A s \in Slots : InFlight(s) ~> (reqs[s].pc = "done")

C17_KeyIsolation ==
    [][\A s \in Slots :
          reqs'[s] # reqs[s] \/ Arrives(s)
          => \A j \in Users \ {reqs'[s].userId} :
                /\ usageTracker'[j] = usageTracker[j]
                /\ store'[j] = store[j]]_vars

\* C18: in every reachable state every entry of usageTracker is a number
\* between 0 and FREE_TRIAL_LIMIT (20): a request in flight holds a userUsage
\* read below the limit, and its write stores that value plus one.
C18_Ceiling ==
    /\ \A k \in TrackerKeys : IsNumber(usageTracker[k]) /\ usageTracker[k] <= 20
    /\ \A s \in Slots :
          InFlight(s) => IsNumber(reqs[s].userUsage) /\ reqs[s].userUsage < 20

====
